---- MODULE Spec2Model ----
(***************************************************************************)
(* Model of the MSSQL -> PostgreSQL sales ETL (src/main.go): main,         *)
(* ensureTargetTable and runETL.  The two stores are modelled by what the  *)
(* statements in main.go ask of them: an ordered SELECT over the source,   *)
(* CREATE TABLE IF NOT EXISTS, and a prepared INSERT ... ON CONFLICT       *)
(* (fsno) DO NOTHING executed inside one transaction of the target.        *)
(*                                                                         *)
(* Values.  A SQL value is a record tagged by k:                           *)
(*   [k |-> "null"]                                  SQL NULL              *)
(*   [k |-> "str", s |-> "..."]                      character data        *)
(*   [k |-> "num", neg, hi, lo]   the decimal (hi * 10^9 + lo) / 1000,     *)
(*                                0 <= lo < 10^9, sign in neg              *)
(*   [k |-> "time", day, sec]     a timestamp: day number, second of day   *)
(* The store is assumed to honour its contract: a commit either succeeds   *)
(* and is reported as success, or fails and leaves the transaction aborted.*)
(***************************************************************************)
EXTENDS Integers, Sequences, FiniteSets, TLC

VARIABLES
    source,       \* rows of the source table Sales
    tableExists,  \* the target table SalesDB exists
    target,       \* committed rows of SalesDB
    pc,           \* position of the process in main / runETL
    cursor,       \* rows: the result set of the source query, in cursor order
    pos,          \* rows: number of result rows already fetched by rows.Next
    rowsOpen,     \* rows: the cursor is open
    iterErr,      \* rows: rows.Err() is non-nil
    tx,           \* the transaction: "none", "active", "committed", "rolledback"
    txRows,       \* SalesDB as the open transaction sees it (uncommitted)
    stmt,         \* the prepared statement: "none", "open", "closed"
    totalRows,    \* runETL's local totalRows
    deferred,     \* runETL's stack of deferred calls
    ret,          \* what runETL returned: [count, err, sqlstate, info]
    exit,         \* how the last process ended: "none", "ok", "fatal"
    runs,         \* number of pipeline processes started so far
    preTarget,    \* history: target when the current runETL was entered
    origTarget,   \* history: target before the failed runs counted by failedRuns
    failedRuns,   \* history: consecutive failed runETL runs, the source unchanged since
    prevCommitted,\* history: the previous run committed and the source is unchanged since
    log           \* history of the current run: counts of the calls runETL made

vars == <<source, tableExists, target, pc, cursor, pos, rowsOpen, iterErr, tx,
          txRows, stmt, totalRows, deferred, ret, exit, runs, preTarget,
          origTarget, failedRuns, prevCommitted, log>>

-----------------------------------------------------------------------------
(* Bounds of the model. *)

MaxSrcRows == 3
MaxRuns == 2

-----------------------------------------------------------------------------
(* SQL values. *)

Null == [k |-> "null"]
Str(s) == [k |-> "str", s |-> s]
Num(neg, hi, lo) == [k |-> "num", neg |-> neg, hi |-> hi, lo |-> lo]
Time(day, sec) == [k |-> "time", day |-> day, sec |-> sec]

(* Thousandths as a decimal below 10^9: Milli(100, 500) is 100.500. *)
Milli(units, thousandths) == Num(FALSE, 0, units * 1000 + thousandths)

RECURSIVE Pow10(_)
Pow10(n) == IF n = 0 THEN 1 ELSE 10 * Pow10(n - 1)

-----------------------------------------------------------------------------
(* The target schema, CREATE TABLE IF NOT EXISTS SalesDB (...). *)

VarcharShort == 50
VarcharLong == 100
NumericPrecision == 12
NumericScale == 2

ColumnDefs ==
    [fsno             |-> [type |-> "varchar", n |-> VarcharShort, notnull |-> TRUE],
     salestype        |-> [type |-> "varchar", n |-> VarcharShort, notnull |-> FALSE],
     attachmentno     |-> [type |-> "varchar", n |-> VarcharShort, notnull |-> FALSE],
     customer         |-> [type |-> "varchar", n |-> VarcharLong,  notnull |-> FALSE],
     region           |-> [type |-> "varchar", n |-> VarcharShort, notnull |-> FALSE],
     sale_date        |-> [type |-> "date",    n |-> 0,            notnull |-> FALSE],
     code             |-> [type |-> "varchar", n |-> VarcharShort, notnull |-> FALSE],
     item_name        |-> [type |-> "varchar", n |-> VarcharLong,  notnull |-> FALSE],
     measurement_unit |-> [type |-> "varchar", n |-> VarcharShort, notnull |-> FALSE],
     unit_price       |-> [type |-> "numeric", n |-> 0,            notnull |-> FALSE],
     sold_quantity    |-> [type |-> "numeric", n |-> 0,            notnull |-> FALSE],
     net_pay          |-> [type |-> "numeric", n |-> 0,            notnull |-> FALSE]]

PrimaryKey == "fsno"

-----------------------------------------------------------------------------
(* What the store does with a parameter bound to a column of each type. *)

CoerceOk(v) == [err |-> "", v |-> v]
CoerceErr(sqlstate) == [err |-> sqlstate, v |-> Null]

(* numeric(12,2): round half away from zero to NumericScale digits, then   *)
(* fail with 22003 when more than NumericPrecision digits are needed.      *)
RoundNumeric(v) ==
    LET unit  == Pow10(3 - NumericScale)
        lo2   == ((v.lo + unit \div 2) \div unit) * unit
        carry == lo2 >= 1000000000
        hi2   == IF carry THEN v.hi + 1 ELSE v.hi
        lo3   == IF carry THEN lo2 - 1000000000 ELSE lo2
    IN  Num(v.neg /\ (hi2 # 0 \/ lo3 # 0), hi2, lo3)

CoerceNumeric(v) ==
    LET r == RoundNumeric(v)
    IN  IF r.hi >= Pow10(NumericPrecision - NumericScale - 6)
        THEN CoerceErr("22003")
        ELSE CoerceOk(r)

(* varchar(n): a longer string is rejected with 22001, never truncated. *)
CoerceVarchar(v, n) ==
    IF Len(v.s) > n THEN CoerceErr("22001") ELSE CoerceOk(v)

(* date: the time of day of a timestamp is dropped. *)
CoerceDate(v) == CoerceOk(Time(v.day, 0))

(* A value of another kind than the column's is text the column's input   *)
(* function rejects (22P02); runETL's holders never produce one.           *)
Coerce(v, def) ==
    CASE v.k = "null" -> CoerceOk(Null)
      [] def.type = "varchar" /\ v.k = "str"  -> CoerceVarchar(v, def.n)
      [] def.type = "numeric" /\ v.k = "num"  -> CoerceNumeric(v)
      [] def.type = "date"    /\ v.k = "time" -> CoerceDate(v)
      [] OTHER -> CoerceErr("22P02")

-----------------------------------------------------------------------------
(* runETL: the extraction query, the holders and the insert statement. *)

SelectCols ==
    <<"fsno", "salestype", "attachmentno", "customer", "region", "date",
      "code", "name", "measurementunit", "unitprice", "soldquantity", "netpay">>

InsertCols ==
    <<"fsno", "salestype", "attachmentno", "customer", "region", "sale_date",
      "code", "item_name", "measurement_unit", "unit_price", "sold_quantity",
      "net_pay">>

(* The holder variables declared in the loop body, with their types. *)
HolderType ==
    [fsno |-> "NullString", salestype |-> "NullString",
     attachmentno |-> "NullString", customer |-> "NullString",
     region |-> "NullString", code |-> "NullString", name |-> "NullString",
     measurementunit |-> "NullString", date |-> "NullTime",
     unitprice |-> "NullFloat64", soldquantity |-> "NullFloat64",
     netpay |-> "NullFloat64"]

(* The destinations of rows.Scan, in call order. *)
ScanDest ==
    <<"fsno", "salestype", "attachmentno", "customer", "region", "date",
      "code", "name", "measurementunit", "unitprice", "soldquantity", "netpay">>

(* The arguments of stmt.Exec, in call order. *)
ExecArgs_swapped ==
    <<"fsno", "salestype", "attachmentno", "customer", "region", "date",
      "code", "name", "measurementunit", "netpay", "soldquantity", "unitprice">>

ExecArgs ==
    <<"fsno", "salestype", "attachmentno", "customer", "region", "date",
      "code", "name", "measurementunit", "unitprice", "soldquantity", "netpay">>

NCols == Len(SelectCols)

ZeroValue(type) ==
    CASE type = "NullString"  -> Str("")
      [] type = "NullFloat64" -> Num(FALSE, 0, 0)
      [] type = "NullTime"    -> Time(0, 0)

(* Scan of one column into a Null* holder: NULL clears Valid and leaves    *)
(* the zero value; a value of the holder's kind is stored; text that is no *)
(* number, or no time, is a conversion error.                              *)
ScanValue(type, raw) ==
    CASE raw.k = "null" -> [ok |-> TRUE, h |-> [Valid |-> FALSE, V |-> ZeroValue(type)]]
      [] raw.k = "str"  /\ type = "NullString"  -> [ok |-> TRUE, h |-> [Valid |-> TRUE, V |-> raw]]
      [] raw.k = "num"  /\ type = "NullFloat64" -> [ok |-> TRUE, h |-> [Valid |-> TRUE, V |-> raw]]
      [] raw.k = "time" /\ type = "NullTime"    -> [ok |-> TRUE, h |-> [Valid |-> TRUE, V |-> raw]]
      [] raw.k = "str"  /\ type # "NullString"  -> [ok |-> FALSE, h |-> [Valid |-> FALSE, V |-> ZeroValue(type)]]

(* rows.Scan(&fsno, ..., &netpay) on a result row (a tuple in SELECT order). *)
Scan(tuple) ==
    LET one(i) == ScanValue(HolderType[ScanDest[i]], tuple[i])
        at(var) == CHOOSE i \in 1..NCols : ScanDest[i] = var
    IN  [ok |-> \A i \in 1..NCols : one(i).ok,
         h  |-> [var \in DOMAIN HolderType |-> one(at(var)).h]]

(* The driver value of a holder handed to Exec: NULL unless Valid. *)
Bind_field(h) == h.V

Bind(h) == IF h.Valid THEN h.V ELSE Null

-----------------------------------------------------------------------------
(* The insert statement:                                                   *)
(*   INSERT INTO SalesDB (InsertCols) VALUES ($1..$12)                     *)
(*   ON CONFLICT (fsno) DO NOTHING                                         *)

(* The conflict clauses the statement does not use: none, and DO UPDATE. *)
OnConflict_none(row, table) ==
    IF \E r \in table : r[PrimaryKey] = row[PrimaryKey]
    THEN [err |-> "23505", table |-> table]
    ELSE [err |-> "", table |-> table \cup {row}]

OnConflict_update(row, table) ==
    [err |-> "",
     table |-> {r \in table : r[PrimaryKey] # row[PrimaryKey]} \cup {row}]

(* ON CONFLICT (fsno) DO NOTHING: a row whose key is present is dropped. *)
OnConflict(row, table) ==
    IF \E r \in table : r[PrimaryKey] = row[PrimaryKey]
    THEN [err |-> "", table |-> table]
    ELSE [err |-> "", table |-> table \cup {row}]

(* stmt.Exec(fsno, ..., netpay) against the table as the statement sees    *)
(* it: bind, coerce each parameter to its column, check NOT NULL, insert.  *)
ExecInsert(h, table) ==
    LET arg(i)     == Bind(h[ExecArgs[i]])
        coerced(i) == Coerce(arg(i), ColumnDefs[InsertCols[i]])
        bad        == {i \in 1..NCols : coerced(i).err # ""}
        first      == CHOOSE i \in bad : \A j \in bad : i <= j
        at(col)    == CHOOSE i \in 1..NCols : InsertCols[i] = col
        row        == [col \in DOMAIN ColumnDefs |-> coerced(at(col)).v]
    IN  IF bad # {} THEN [err |-> coerced(first).err, table |-> table]
        ELSE IF \E col \in DOMAIN ColumnDefs :
                    ColumnDefs[col].notnull /\ row[col] = Null
        THEN [err |-> "23502", table |-> table]
        ELSE OnConflict(row, table)

-----------------------------------------------------------------------------
(* The extraction query: SELECT SelectCols FROM Sales ORDER BY fsno. *)

(* Collation of the keys the model uses; NULL sorts first. *)
KeyOrder == <<"", "A1", "A2", "A3">>

FsnoRank(v) ==
    IF v.k = "null" THEN 0
    ELSE CHOOSE i \in 1..Len(KeyOrder) : KeyOrder[i] = v.s

QueryRow(r) == [i \in 1..NCols |-> r[SelectCols[i]]]

(* Every ordering of the table's rows that ORDER BY fsno allows: rows with *)
(* equal fsno come in an order the query does not determine.               *)
OrderByFsno_unordered(table) ==
    LET n     == Len(table)
        perms == {p \in [1..n -> 1..n] : \A i, j \in 1..n : i # j => p[i] # p[j]}
    IN  {[i \in 1..n |-> QueryRow(table[p[i]])] : p \in perms}

OrderByFsno(table) ==
    LET n     == Len(table)
        perms == {p \in [1..n -> 1..n] : \A i, j \in 1..n : i # j => p[i] # p[j]}
        asc   == {p \in perms : \A i \in 1..n, j \in 1..n :
                     i < j => FsnoRank(table[p[i]].fsno) <= FsnoRank(table[p[j]].fsno)}
    IN  {[i \in 1..n |-> QueryRow(table[p[i]])] : p \in asc}

-----------------------------------------------------------------------------
(* Source tables the model draws from. *)

Long51 == "xxxxxxxxxxxxxxxxxxxxxxxxxxxxxxxxxxxxxxxxxxxxxxxxxxx"

Base(fs) ==
    [fsno |-> fs, salestype |-> Str("cash"), attachmentno |-> Str("att"),
     customer |-> Str("acme"), region |-> Str("north"), date |-> Time(1, 0),
     code |-> Str("c1"), name |-> Str("item"), measurementunit |-> Str("kg"),
     unitprice |-> Milli(2, 0), soldquantity |-> Milli(3, 0),
     netpay |-> Milli(100, 500)]

RowPool ==
    << Base(Str("A1")),
       [Base(Str("A2")) EXCEPT !.netpay = Null, !.customer = Null],
       [Base(Str("A1")) EXCEPT !.customer = Str("bob")],
       [Base(Str("A3")) EXCEPT !.unitprice = Str("abc")],
       Base(Null),
       [Base(Str("A3")) EXCEPT !.netpay = Milli(1, 5), !.date = Time(2, 3600)],
       [Base(Str("A2")) EXCEPT !.region = Str(Long51), !.customer = Str(Long51)],
       Base(Str("")) >>

(* Tables of at most MaxSrcRows distinct rows of the pool, one sequence    *)
(* per set of rows (the table has no order of its own).                    *)
SourceTables ==
    UNION { { [i \in 1..n |-> RowPool[f[i]]] :
                f \in {g \in [1..n -> 1..Len(RowPool)] :
                          \A i \in 1..n, j \in 1..n : i < j => g[i] < g[j]} } :
            n \in 0..MaxSrcRows }

RowsOf(table) == {table[i] : i \in 1..Len(table)}

(* One INSERT, DELETE or UPDATE of a row of the source table. *)
OneRowEdit(old, new) ==
    /\ RowsOf(old) # RowsOf(new)
    /\ Cardinality(RowsOf(old) \ RowsOf(new)) <= 1
    /\ Cardinality(RowsOf(new) \ RowsOf(old)) <= 1

-----------------------------------------------------------------------------
(* State. *)

(* runETL's results: the int, and the error value as err (which           *)
(* fmt.Errorf built it, "nil" for none), sqlstate (the store's error it    *)
(* wraps) and info (the data the error value carries).                     *)
NoRet == [count |-> 0, err |-> "none", sqlstate |-> "", info |-> [sqlstate |-> ""]]
Ret(count, err, sqlstate) ==
    [count |-> count, err |-> err, sqlstate |-> sqlstate,
     info |-> [sqlstate |-> sqlstate]]

(* fmt.Errorf("error executing insert statement: %w", err): the error      *)
(* value wraps the store's error and nothing else; the fsno goes to        *)
(* log.Printf only and the count is returned beside the error.             *)
ExecError(count, sqlstate, fsno) ==
    [count |-> count, err |-> "exec", sqlstate |-> sqlstate,
     info |-> [sqlstate |-> sqlstate]]

NoLog == [scanFail |-> 0, exec |-> 0, execErr |-> 0, inserted |-> 0,
          commit |-> 0, exhausted |-> FALSE]

RunVarsInit ==
    /\ cursor = <<>>
    /\ pos = 0
    /\ rowsOpen = FALSE
    /\ iterErr = FALSE
    /\ tx = "none"
    /\ txRows = {}
    /\ stmt = "none"
    /\ totalRows = 0
    /\ deferred = <<>>
    /\ ret = NoRet
    /\ log = NoLog

Init ==
    /\ source \in SourceTables
    /\ tableExists \in BOOLEAN
    /\ target = {}
    /\ pc = "idle"
    /\ exit = "none"
    /\ runs = 0
    /\ preTarget = {}
    /\ origTarget = {}
    /\ failedRuns = 0
    /\ prevCommitted = FALSE
    /\ RunVarsInit

-----------------------------------------------------------------------------
(* main *)

runVars == <<cursor, pos, rowsOpen, iterErr, tx, txRows, stmt, totalRows,
             deferred, ret, log>>
histVars == <<origTarget, failedRuns, prevCommitted>>

(* The process starts: connections are open, nothing of runETL exists yet. *)
StartMain ==
    /\ pc = "idle"
    /\ runs < MaxRuns
    /\ pc' = "ensure"
    /\ runs' = runs + 1
    /\ exit' = "none"
    /\ UNCHANGED <<source, tableExists, target, preTarget, runVars, histVars>>

(* CREATE TABLE IF NOT EXISTS: creates an empty table only when absent. *)
CreateTable_replace(exists, rows) == [exists |-> TRUE, rows |-> {}]

CreateTableIfNotExists(exists, rows) ==
    IF exists THEN [exists |-> TRUE, rows |-> rows]
    ELSE [exists |-> TRUE, rows |-> {}]

EnsureTargetTableOk ==
    /\ pc = "ensure"
    /\ LET t == CreateTableIfNotExists(tableExists, target)
       IN  /\ tableExists' = t.exists
           /\ target' = t.rows
           /\ preTarget' = t.rows
    /\ pc' = "query"
    /\ UNCHANGED <<source, exit, runs, runVars, histVars>>

(* db.Exec of the DDL fails: main ends with log.Fatalf, runETL never runs. *)
EnsureTargetTableFail ==
    /\ pc = "ensure"
    /\ pc' = "idle"
    /\ exit' = "fatal"
    /\ UNCHANGED <<source, tableExists, target, runs, preTarget, runVars, histVars>>

-----------------------------------------------------------------------------
(* runETL *)

DeferRowsClose == <<"rows.Close">>

DeferRollback_missing == <<>>

DeferRollback == <<"tx.Rollback">>

DeferStmtClose == <<"stmt.Close">>

(* Which handle the insert statement is prepared on: tx.Prepare. *)
StmtOwner_db == "db"

StmtOwner == "tx"

QueryOk ==
    /\ pc = "query"
    /\ \E c \in OrderByFsno(source) : cursor' = c
    /\ rowsOpen' = TRUE
    /\ deferred' = deferred \o DeferRowsClose
    /\ pc' = "begin"
    /\ UNCHANGED <<source, tableExists, target, pos, iterErr, tx, txRows, stmt,
                   totalRows, ret, exit, runs, preTarget, histVars, log>>

(* The query error return placed after targetDB.Begin. *)
QueryFail_afterBegin ==
    /\ pc = "query"
    /\ ret' = Ret(0, "query", "")
    /\ tx' = "active"
    /\ deferred' = deferred \o DeferRollback
    /\ pc' = "return"
    /\ UNCHANGED <<source, tableExists, target, cursor, pos, rowsOpen, iterErr,
                   txRows, stmt, totalRows, exit, runs, preTarget, histVars, log>>

(* sourceDB.Query fails: return 0 and the wrapped error, before Begin. *)
QueryFail ==
    /\ pc = "query"
    /\ ret' = Ret(0, "query", "")
    /\ pc' = "return"
    /\ UNCHANGED <<source, tableExists, target, cursor, pos, rowsOpen, iterErr,
                   tx, txRows, stmt, totalRows, deferred, exit, runs, preTarget,
                   histVars, log>>

BeginOk ==
    /\ pc = "begin"
    /\ tx' = "active"
    /\ txRows' = target
    /\ deferred' = deferred \o DeferRollback
    /\ pc' = "prepare"
    /\ UNCHANGED <<source, tableExists, target, cursor, pos, rowsOpen, iterErr,
                   stmt, totalRows, ret, exit, runs, preTarget, histVars, log>>

BeginFail ==
    /\ pc = "begin"
    /\ ret' = Ret(0, "begin", "")
    /\ pc' = "return"
    /\ UNCHANGED <<source, tableExists, target, cursor, pos, rowsOpen, iterErr,
                   tx, txRows, stmt, totalRows, deferred, exit, runs, preTarget,
                   histVars, log>>

PrepareOk ==
    /\ pc = "prepare"
    /\ stmt' = "open"
    /\ deferred' = deferred \o DeferStmtClose
    /\ pc' = "loop"
    /\ UNCHANGED <<source, tableExists, target, cursor, pos, rowsOpen, iterErr,
                   tx, txRows, totalRows, ret, exit, runs, preTarget, histVars, log>>

PrepareFail ==
    /\ pc = "prepare"
    /\ ret' = Ret(0, "prepare", "")
    /\ pc' = "return"
    /\ UNCHANGED <<source, tableExists, target, cursor, pos, rowsOpen, iterErr,
                   tx, txRows, stmt, totalRows, deferred, exit, runs, preTarget,
                   histVars, log>>

(* The loop: rows.Next, rows.Scan, stmt.Exec, totalRows++. *)

Fetched == pos < Len(cursor)
Scanned == Scan(cursor[pos + 1])

(* The table the statement reads and writes. *)
Visible == IF StmtOwner = "tx" THEN txRows ELSE target

Bump(field) == [log EXCEPT ![field] = @ + 1]

(* What the loop does after a failed rows.Scan: continue. *)
OnScanError_break == "break"

OnScanError == "continue"

(* totalRows++ after a successful Exec, whatever the statement inserted. *)
NextTotal_inserted(total, inserted) == total + inserted

NextTotal(total, inserted) == total + 1

(* The count returned with an Exec error: totalRows as it stands. *)
FailCount_withFailed(total) == total + 1

FailCount(total) == total

(* if err := rows.Err(); err != nil { return ... } *)
RowsErrReturns_ignored(err) == FALSE

RowsErrReturns(err) == err

(* rows.Scan fails: the row is logged and skipped with continue. *)
ScanSkip ==
    /\ pc = "loop"
    /\ Fetched
    /\ ~Scanned.ok
    /\ pos' = pos + 1
    /\ log' = Bump("scanFail")
    /\ pc' = IF OnScanError = "continue" THEN "loop" ELSE "commit"
    /\ UNCHANGED <<source, tableExists, target, cursor, rowsOpen, iterErr, tx,
                   txRows, stmt, totalRows, deferred, ret, exit, runs, preTarget,
                   histVars>>

ExecOk ==
    /\ pc = "loop"
    /\ Fetched
    /\ Scanned.ok
    /\ LET r == ExecInsert(Scanned.h, Visible)
       IN  /\ r.err = ""
           /\ txRows' = r.table
           /\ target' = IF StmtOwner = "tx" THEN target ELSE r.table
           /\ log' = [log EXCEPT !.exec = @ + 1,
                                 !.inserted = @ + Cardinality(r.table \ Visible)]
           /\ totalRows' = NextTotal(totalRows, Cardinality(r.table \ Visible))
    /\ pos' = pos + 1
    /\ UNCHANGED <<source, tableExists, pc, cursor, rowsOpen, iterErr, tx, stmt,
                   deferred, ret, exit, runs, preTarget, histVars>>

(* stmt.Exec is refused by the store because of the row's data. *)
ExecFail ==
    /\ pc = "loop"
    /\ Fetched
    /\ Scanned.ok
    /\ LET r == ExecInsert(Scanned.h, Visible)
       IN  /\ r.err # ""
           /\ ret' = ExecError(FailCount(totalRows), r.err, Scanned.h.fsno)
    /\ pos' = pos + 1
    /\ log' = [log EXCEPT !.exec = @ + 1, !.execErr = @ + 1]
    /\ pc' = "return"
    /\ UNCHANGED <<source, tableExists, target, cursor, rowsOpen, iterErr, tx,
                   txRows, stmt, totalRows, deferred, exit, runs, preTarget,
                   histVars>>

(* stmt.Exec fails because the connection to the target is lost. *)
ExecFailConn ==
    /\ pc = "loop"
    /\ Fetched
    /\ Scanned.ok
    /\ ret' = ExecError(FailCount(totalRows), "08006", Scanned.h.fsno)
    /\ pos' = pos + 1
    /\ log' = [log EXCEPT !.exec = @ + 1, !.execErr = @ + 1]
    /\ pc' = "return"
    /\ UNCHANGED <<source, tableExists, target, cursor, rowsOpen, iterErr, tx,
                   txRows, stmt, totalRows, deferred, exit, runs, preTarget,
                   histVars>>

(* rows.Next returns false at the end of the result set; rows.Err is nil. *)
LoopEnd ==
    /\ pc = "loop"
    /\ ~Fetched
    /\ ~RowsErrReturns(FALSE)
    /\ rowsOpen' = FALSE
    /\ log' = [log EXCEPT !.exhausted = TRUE]
    /\ pc' = "commit"
    /\ UNCHANGED <<source, tableExists, target, cursor, pos, iterErr, tx, txRows,
                   stmt, totalRows, deferred, ret, exit, runs, preTarget, histVars>>

(* rows.Next returns false because the cursor failed; rows.Err is non-nil. *)
LoopIterErr ==
    /\ pc = "loop"
    /\ rowsOpen' = FALSE
    /\ iterErr' = TRUE
    /\ IF RowsErrReturns(TRUE)
       THEN ret' = Ret(totalRows, "iter", "") /\ pc' = "return"
       ELSE ret' = ret /\ pc' = "commit"
    /\ UNCHANGED <<source, tableExists, target, cursor, pos, tx, txRows, stmt,
                   totalRows, deferred, exit, runs, preTarget, histVars, log>>

CommitOk ==
    /\ pc = "commit"
    /\ tx' = "committed"
    /\ target' = txRows
    /\ stmt' = "closed"
    /\ ret' = Ret(totalRows, "nil", "")
    /\ log' = Bump("commit")
    /\ pc' = "return"
    /\ UNCHANGED <<source, tableExists, cursor, pos, rowsOpen, iterErr, txRows,
                   totalRows, deferred, exit, runs, preTarget, histVars>>

(* if err := tx.Commit(); err != nil { return totalRows, fmt.Errorf(...) } *)
CommitErrResult_swallowed == "nil"

CommitErrResult == "commit"

(* tx.Commit fails: the store aborts the transaction. *)
CommitFail ==
    /\ pc = "commit"
    /\ tx' = "rolledback"
    /\ ret' = Ret(totalRows, CommitErrResult, "")
    /\ log' = Bump("commit")
    /\ pc' = "return"
    /\ UNCHANGED <<source, tableExists, target, cursor, pos, rowsOpen, iterErr,
                   txRows, stmt, totalRows, deferred, exit, runs, preTarget,
                   histVars>>

(* The deferred calls, run last-in first-out when runETL returns. *)
ApplyDeferred(call, res) ==
    CASE call = "stmt.Close"  -> [res EXCEPT !.stmt = "closed"]
      [] call = "tx.Rollback" -> IF res.tx = "active"
                                 THEN [res EXCEPT !.tx = "rolledback"]
                                 ELSE res
      [] call = "rows.Close"  -> [res EXCEPT !.rowsOpen = FALSE]

RECURSIVE RunDeferred(_, _)
RunDeferred(stack, res) ==
    IF stack = <<>> THEN res
    ELSE RunDeferred(SubSeq(stack, 1, Len(stack) - 1),
                     ApplyDeferred(stack[Len(stack)], res))

Return ==
    /\ pc = "return"
    /\ LET res == RunDeferred(deferred, [rowsOpen |-> rowsOpen, tx |-> tx, stmt |-> stmt])
       IN  /\ rowsOpen' = res.rowsOpen
           /\ tx' = res.tx
           /\ stmt' = res.stmt
    /\ deferred' = <<>>
    /\ pc' = "returned"
    /\ UNCHANGED <<source, tableExists, target, cursor, pos, iterErr, txRows,
                   totalRows, ret, exit, runs, preTarget, histVars, log>>

(* main after runETL: log.Fatalf on an error, else the success line; the   *)
(* process ends and with it everything runETL held.                        *)
MainExit ==
    /\ pc = "returned"
    /\ exit' = IF ret.err = "nil" THEN "ok" ELSE "fatal"
    /\ failedRuns' = IF ret.err = "nil" THEN 0 ELSE failedRuns + 1
    /\ origTarget' = IF ret.err = "nil" THEN target ELSE origTarget
    /\ prevCommitted' = (ret.err = "nil")
    /\ pc' = "idle"
    /\ cursor' = <<>>
    /\ pos' = 0
    /\ rowsOpen' = FALSE
    /\ iterErr' = FALSE
    /\ tx' = "none"
    /\ txRows' = {}
    /\ stmt' = "none"
    /\ totalRows' = 0
    /\ deferred' = <<>>
    /\ ret' = NoRet
    /\ log' = NoLog
    /\ UNCHANGED <<source, tableExists, target, runs, preTarget>>

-----------------------------------------------------------------------------
(* The source table changes between two runs of the pipeline, one row at  *)
(* a time, any number of times.                                            *)
SourceChange ==
    /\ pc = "idle"
    /\ runs > 0
    /\ runs < MaxRuns
    /\ source' \in {s \in SourceTables : OneRowEdit(source, s)}
    /\ origTarget' = target
    /\ failedRuns' = 0
    /\ prevCommitted' = FALSE
    /\ UNCHANGED <<tableExists, target, pc, exit, runs, preTarget, runVars>>

Next ==
    \/ StartMain
    \/ EnsureTargetTableOk
    \/ EnsureTargetTableFail
    \/ QueryOk
    \/ QueryFail
    \/ BeginOk
    \/ BeginFail
    \/ PrepareOk
    \/ PrepareFail
    \/ ScanSkip
    \/ ExecOk
    \/ ExecFail
    \/ ExecFailConn
    \/ LoopEnd
    \/ LoopIterErr
    \/ CommitOk
    \/ CommitFail
    \/ Return
    \/ MainExit
    \/ SourceChange

Spec == Init /\ [][Next]_vars

-----------------------------------------------------------------------------
(* One run of runETL over one source row, with every subset of the row's   *)
(* eleven non-key columns NULL.                                            *)

NonKeyCols == {SelectCols[i] : i \in 2..NCols}

Masked(row, nulls) ==
    [c \in DOMAIN row |-> IF c \in nulls THEN Null ELSE row[c]]

NullBases ==
    { RowPool[1], RowPool[4], RowPool[6], RowPool[7],
      [Base(Str("A3")) EXCEPT !.netpay = Num(FALSE, 9999, 999999995)],
      [Base(Str("A2")) EXCEPT !.soldquantity = Num(TRUE, 0, 4),
                              !.unitprice = Num(FALSE, 0, 999999996)] }

InitNull ==
    /\ \E b \in NullBases, nulls \in SUBSET NonKeyCols :
          source = <<Masked(b, nulls)>>
    /\ tableExists = TRUE
    /\ target = {}
    /\ pc = "query"
    /\ exit = "none"
    /\ runs = 1
    /\ preTarget = {}
    /\ origTarget = {}
    /\ failedRuns = 0
    /\ prevCommitted = FALSE
    /\ RunVarsInit

NextRun ==
    \/ QueryOk
    \/ QueryFail
    \/ BeginOk
    \/ BeginFail
    \/ PrepareOk
    \/ PrepareFail
    \/ ScanSkip
    \/ ExecOk
    \/ ExecFail
    \/ ExecFailConn
    \/ LoopEnd
    \/ LoopIterErr
    \/ CommitOk
    \/ CommitFail
    \/ Return

SpecNull == InitNull /\ [][NextRun]_vars

-----------------------------------------------------------------------------
(* Properties. *)

Returned == pc = "returned"

(* The result rows that rows.Scan can decode. *)
Decodable(c) == {i \in 1..Len(c) : Scan(c[i]).ok}

(* An error that comes from the environment rather than from the data. *)
EnvFault ==
    \/ ret.err \in {"query", "begin", "prepare", "iter", "commit"}
    \/ ret.err = "exec" /\ ret.sqlstate = "08006"

(* C1: atomicity.  Once stmt.Exec has returned a hard error, the target    *)
(* table equals its state at the entry of runETL, whatever rows the run    *)
(* inserted before, and tx.Commit has not been called in the run.          *)
C1_Atomicity ==
    ret.err = "exec" => target = preTarget /\ log.commit = 0

(* A run that inserted rows and then met a hard error on a later row. *)
C1_Witness ==
    /\ Returned
    /\ ret.err = "exec"
    /\ log.inserted >= 1
    /\ ret.count >= 1

(* C2: idempotence.  A run that follows a committed run over an unchanged  *)
(* source leaves the target as it found it, inserts no row, never meets a  *)
(* duplicate-key error nor any other error of the data, and commits unless *)
(* the environment fails.                                                  *)
C2_Idempotence ==
    Returned /\ prevCommitted =>
        /\ target = preTarget
        /\ log.inserted = 0
        /\ ret.sqlstate # "23505"
        /\ ret.err = "nil" \/ EnvFault
        /\ ret.err = "nil" => tx = "committed"

(* A second committed run over at least two rows that were already loaded. *)
C2_Witness ==
    /\ Returned
    /\ prevCommitted
    /\ ret.err = "nil"
    /\ ret.count >= 2
    /\ Cardinality(target) >= 2

(* C3: tx.Commit is called only after rows.Next returned false at the end  *)
(* of the result set with rows.Err nil and no stmt.Exec error; a cursor    *)
(* error ends the run with an error, the target unchanged and no commit.   *)
C3_CommitOnlyAfterCleanStream ==
    /\ (pc = "commit" \/ log.commit > 0) =>
          /\ log.exhausted
          /\ ~iterErr
          /\ log.execErr = 0
          /\ pos = Len(cursor)
    /\ iterErr =>
          /\ log.commit = 0
          /\ target = preTarget
          /\ pc \in {"return", "returned"}
          /\ ret.err = "iter"

(* A commit after a stream of three rows, one of them skipped. *)
C3_Witness ==
    /\ Returned
    /\ log.commit = 1
    /\ ret.err = "nil"
    /\ Len(cursor) = 3
    /\ log.scanFail = 1

(* C4: on success the returned count is the number of rows decoded and     *)
(* handed to the insert statement, conflicts included.                     *)
C4_SuccessCount ==
    Returned /\ ret.err = "nil" =>
        /\ ret.count = log.exec
        /\ ret.count = Cardinality(Decodable(cursor))

(* A1 and A2 already loaded, source {A1, A2, A3}: the run returns 3 and    *)
(* inserts one row.                                                        *)
C4_Witness ==
    /\ Returned
    /\ ret.err = "nil"
    /\ {r.fsno : r \in preTarget} = {Str("A1"), Str("A2")}
    /\ [i \in 1..Len(cursor) |-> cursor[i][1]] = <<Str("A1"), Str("A2"), Str("A3")>>
    /\ ret.count = 3
    /\ log.inserted = 1

(* C5: with a hard insert error the returned count is the number of rows   *)
(* whose Exec succeeded before the failing row: the decodable rows among   *)
(* those fetched before it.                                                *)
C5_FailureCount ==
    ret.err = "exec" =>
        /\ ret.count = log.exec - 1
        /\ ret.count = Cardinality({i \in Decodable(cursor) : i < pos})
        /\ pos \in Decodable(cursor)

(* The third row fails after one skipped row and one successful Exec. *)
C5_Witness ==
    /\ Returned
    /\ ret.err = "exec"
    /\ pos = 3
    /\ log.scanFail = 1
    /\ ret.count = 1

(* C6: row-skip isolation.  A row that fails to decode never ends the run: *)
(* a run that returns success has handed every decodable row of the result *)
(* set to the statement, so each of their keys is in the target, and its   *)
(* count is the number of result rows less those that failed to decode.    *)
C6_RowSkipIsolation ==
    /\ Returned /\ ret.err = "nil" =>
          /\ \A i \in Decodable(cursor) : \E r \in target : r.fsno = cursor[i][1]
          /\ ret.count = Len(cursor) - Cardinality((1..Len(cursor)) \ Decodable(cursor))
          /\ log.scanFail = Cardinality((1..Len(cursor)) \ Decodable(cursor))
    /\ pc = "loop" => log.scanFail + log.exec = pos

(* A committed run that inserted a row fetched after a skipped row. *)
C6_Witness ==
    /\ Returned
    /\ ret.err = "nil"
    /\ \E i \in 1..Len(cursor), j \in 1..Len(cursor) :
          /\ i < j
          /\ i \notin Decodable(cursor)
          /\ j \in Decodable(cursor)
          /\ \E r \in target \ preTarget : r.fsno = cursor[j][1]

(* The target column that holds each source column. *)
ColumnOf ==
    [fsno |-> "fsno", salestype |-> "salestype", attachmentno |-> "attachmentno",
     customer |-> "customer", region |-> "region", date |-> "sale_date",
     code |-> "code", name |-> "item_name", measurementunit |-> "measurement_unit",
     unitprice |-> "unit_price", soldquantity |-> "sold_quantity",
     netpay |-> "net_pay"]

(* t is the value v as its target column keeps it: text as it is, a        *)
(* timestamp as its date, a decimal as the nearest hundredth (halves away  *)
(* from zero, no negative zero).                                           *)
StoredAs(v, t) ==
    CASE v.k = "str"  -> t = v
      [] v.k = "time" -> t = Time(v.day, 0)
      [] v.k = "num"  -> /\ t.k = "num"
                         /\ t.lo % 10 = 0
                         /\ t.hi - v.hi \in 0..1
                         /\ (t.hi - v.hi) * 1000000000 + t.lo - v.lo \in -4..5
                         /\ t.neg = (v.neg /\ (t.hi # 0 \/ t.lo # 0))
      [] OTHER -> FALSE

(* The rows a returned, successful run added to the target. *)
Loaded == IF Returned /\ ret.err = "nil" THEN target \ preTarget ELSE {}

(* C7 (as amended): null pass-through.  Every row a committed run inserted *)
(* comes from a source row with the same fsno, has NULL exactly in the     *)
(* columns where that source row is NULL, and holds in every other column  *)
(* the source value of the corresponding column as converted to the        *)
(* column's type (numeric(12,2), date, varchar).                           *)
C7_NullPassThrough ==
    \A r \in Loaded : \E i \in 1..Len(source) :
        /\ r.fsno = source[i].fsno
        /\ \A c \in NonKeyCols :
              IF source[i][c] = Null
              THEN r[ColumnOf[c]] = Null
              ELSE r[ColumnOf[c]] # Null /\ StoredAs(source[i][c], r[ColumnOf[c]])

(* A loaded row with some non-key columns NULL and the others not. *)
C7_Witness ==
    \E r \in Loaded :
        /\ r.net_pay = Null
        /\ r.sale_date = Null
        /\ r.salestype = Null
        /\ r.unit_price # Null
        /\ r.customer # Null
        /\ r.item_name # Null

(* C7 as stated: every non-NULL field of the inserted row equals the       *)
(* source value.                                                           *)
C7_Original ==
    \A r \in Loaded : \E i \in 1..Len(source) :
        /\ r.fsno = source[i].fsno
        /\ \A c \in NonKeyCols :
              IF source[i][c] = Null
              THEN r[ColumnOf[c]] = Null
              ELSE r[ColumnOf[c]] = source[i][c]

(* C8: the committed target only grows.  No step of any run, committed or *)
(* failed, removes a row of the target or changes one of its fields.       *)
C8_TargetOnlyGrows ==
    [][\A r \in target : r \in target']_vars

(* A second run that inserted a new row and skipped a source row whose key *)
(* was loaded before with other field values.                              *)
C8_Witness ==
    /\ Returned
    /\ ret.err = "nil"
    /\ runs = 2
    /\ log.inserted >= 1
    /\ \E r \in preTarget, i \in 1..Len(source) :
          /\ source[i].fsno = r.fsno
          /\ source[i].customer # r.customer
          /\ r \in target

(* What one error-free run over the result set c produces from table:      *)
(* rows i.. of c are decoded and inserted in order, undecodable ones        *)
(* skipped.                                                                 *)
RECURSIVE Load(_, _, _)
Load(table, c, i) ==
    IF i > Len(c) THEN table
    ELSE IF ~Scan(c[i]).ok THEN Load(table, c, i + 1)
    ELSE Load(ExecInsert(Scan(c[i]).h, table).table, c, i + 1)

(* C9: re-invocation is safe.  A run that meets no error after failed runs *)
(* over the same source leaves the target as one error-free run over the   *)
(* same result set would have left the target that preceded the failed     *)
(* runs; and within a run nothing is retried: every fetched row is scanned *)
(* and executed at most once and Commit is called at most once.            *)
C9_ReinvocationSafe ==
    /\ Returned /\ ret.err = "nil" /\ failedRuns >= 1 =>
          target = Load(origTarget, cursor, 1)
    /\ log.commit <= 1
    /\ log.exec + log.scanFail = pos

(* A successful run that loaded rows after a failed run over the same source. *)
C9_Witness ==
    /\ Returned
    /\ ret.err = "nil"
    /\ failedRuns >= 1
    /\ log.inserted >= 2
    /\ log.scanFail >= 1

(* C10: scoped resources.  When runETL has returned, the cursor is closed, *)
(* the statement, if it was prepared, is closed, no deferred call is left, *)
(* and the transaction, if it was begun, is committed exactly when runETL  *)
(* returned no error and is rolled back otherwise.                         *)
C10_ResourcesReleased ==
    Returned =>
        /\ ~rowsOpen
        /\ deferred = <<>>
        /\ tx = CASE ret.err = "nil" -> "committed"
                  [] ret.err \in {"query", "begin"} -> "none"
                  [] OTHER -> "rolledback"
        /\ stmt = IF ret.err \in {"query", "begin", "prepare"} THEN "none" ELSE "closed"

(* A cursor error in mid-stream, after rows were inserted. *)
C10_Witness ==
    /\ Returned
    /\ ret.err = "iter"
    /\ pos < Len(cursor)
    /\ log.inserted >= 1
    /\ tx = "rolledback"
    /\ stmt = "closed"
    /\ ~rowsOpen

(* What a reader outside the pipeline gets from SELECT * FROM SalesDB      *)
(* under read-committed isolation: the committed rows.                     *)
ReaderView == target

InRun == pc \in {"query", "begin", "prepare", "loop", "commit", "return", "returned"}

(* C11: at every point of a run, a concurrent reader of the target sees    *)
(* either the table as it was when runETL was entered or, once tx.Commit   *)
(* has succeeded, the table with every row of the run loaded; never a      *)
(* table holding only some of the run's rows.                              *)
C11_ReaderSeesPreOrPost ==
    InRun =>
        \/ ReaderView = preTarget
        \/ /\ tx = "committed"
           /\ log.commit = 1
           /\ ReaderView = Load(preTarget, cursor, 1)

(* Mid-run: the transaction holds two inserted rows, more rows are to      *)
(* come, and the reader still sees the pre-run table.                      *)
C11_Witness ==
    /\ pc = "loop"
    /\ log.inserted = 2
    /\ pos < Len(cursor)
    /\ Cardinality(txRows \ ReaderView) = 2
    /\ ReaderView = preTarget

(* C12: when tx.Commit fails, runETL returns the commit error, the        *)
(* transaction ends rolled back, and the target equals its pre-run state:  *)
(* no row of the run is visible.                                           *)
C12_CommitFailure ==
    log.commit >= 1 /\ tx # "committed" =>
        /\ ret.err = "commit"
        /\ tx = "rolledback"
        /\ target = preTarget
        /\ ReaderView = preTarget

(* A failed commit of a transaction that had inserted rows. *)
C12_Witness ==
    /\ Returned
    /\ ret.err = "commit"
    /\ log.inserted >= 2
    /\ log.commit = 1

(* C13: when the source query cannot be issued, runETL returns count 0    *)
(* with an error before any row is processed: no cursor is opened, no      *)
(* transaction is begun, no statement prepared, no insert executed, and    *)
(* the target is unchanged.                                                *)
C13_QueryFailureAborts ==
    ret.err = "query" =>
        /\ ret.count = 0
        /\ tx = "none"
        /\ stmt = "none"
        /\ cursor = <<>> /\ pos = 0 /\ ~rowsOpen
        /\ log.exec = 0 /\ log.scanFail = 0 /\ log.inserted = 0 /\ log.commit = 0
        /\ txRows = {}
        /\ target = preTarget

(* The query fails over a source that has rows, with rows in the target. *)
C13_Witness ==
    /\ Returned
    /\ ret.err = "query"
    /\ Len(source) >= 2
    /\ target # {}

(* C14: ensureTargetTable is idempotent: on a SalesDB table that already  *)
(* exists, with any rows, a call that the store executes returns no error  *)
(* (runETL is reached) and leaves the table and its rows unchanged; the    *)
(* table exists after every successful call, and a second call changes     *)
(* nothing the first one did.  The schema is the fixed ColumnDefs.         *)
C14_EnsureIdempotent ==
    /\ [](LET once == CreateTableIfNotExists(tableExists, target)
          IN  /\ once.exists
              /\ CreateTableIfNotExists(once.exists, once.rows) = once
              /\ tableExists => once.rows = target)
    /\ [][pc = "ensure" /\ pc' # "ensure" =>
            /\ tableExists => tableExists' /\ target' = target
            /\ pc' = "query" => tableExists' /\ preTarget' = target'
            /\ ~tableExists /\ pc' = "query" => target' = {}]_vars

(* A second call of ensureTargetTable has succeeded on a table with rows. *)
C14_Witness ==
    /\ pc = "query"
    /\ runs = 2
    /\ tableExists
    /\ Cardinality(target) >= 2
    /\ target = preTarget

(* C15: when an insert fails with a hard error, the error value runETL    *)
(* returns carries the fsno of the offending row and the count of rows     *)
(* processed before the failure.                                           *)
C15_ErrorCarriesContext ==
    ret.err = "exec" =>
        /\ {"fsno", "count"} \subseteq DOMAIN ret.info
        /\ ret.info.fsno = Scan(cursor[pos]).h.fsno
        /\ ret.info.count = ret.count

(* The fetched row i has an fsno that is NULL, empty, or also the fsno of  *)
(* another fetched row or of a row of the pre-run target.                  *)
NullKey(i) == cursor[i][1] = Null
EmptyKey(i) == cursor[i][1] = Str("")
DuplicateKey(i) ==
    \/ \E j \in 1..Len(cursor) : j # i /\ cursor[j][1] = cursor[i][1]
    \/ \E r \in preTarget : r[PrimaryKey] = cursor[i][1]

(* The holders h are accepted by the insert once fsno is a key that is     *)
(* regular and new: nothing but the key can make the store refuse them.    *)
ValidButForKey(h) ==
    ExecInsert([h EXCEPT !.fsno = [Valid |-> TRUE, V |-> Str("A1")]], {}).err = ""

(* C16: a decodable source row whose fsno is NULL, empty, or a duplicate   *)
(* is resolved by ON CONFLICT (fsno) DO NOTHING: its Exec returns no error *)
(* of the store, so it never aborts the run, and it is counted.            *)
C16_KeyAnomalyTolerated ==
    \A i \in 1..pos :
        LET s == Scan(cursor[i])
        IN  s.ok /\ ValidButForKey(s.h)
                 /\ (NullKey(i) \/ EmptyKey(i) \/ DuplicateKey(i)) =>
                /\ ~(ret.err = "exec" /\ i = pos /\ ret.sqlstate # "08006")
                /\ Returned /\ ret.err = "nil" =>
                       ret.count = Cardinality({j \in 1..pos : Scan(cursor[j]).ok})

(* Every order in which the rows of the result set c can be visited. *)
VisitOrders(c) ==
    LET n == Len(c)
    IN  {[i \in 1..n |-> c[p[i]]] :
            p \in {q \in [1..n -> 1..n] : \A i, j \in 1..n : i # j => q[i] # q[j]}}

(* The target a run that meets no environment fault leaves when it visits  *)
(* the rows in the order c, starting from the pre-run target.              *)
TargetAfter(c) == Load(preTarget, c, 1)

(* C17 as the specification states it: after a committed run, every        *)
(* visiting order of the same rows, including any order among rows that    *)
(* share an fsno, yields the same target table.                            *)
C17_Original ==
    Returned /\ ret.err = "nil" =>
        \A c2 \in VisitOrders(cursor) : TargetAfter(c2) = target

(* The first decodable row of c with the fsno key. *)
FirstWith(c, key) ==
    CHOOSE i \in Decodable(c) :
        /\ c[i][1] = key
        /\ \A j \in Decodable(c) : c[j][1] = key => i <= j

(* C17 (as amended): after a committed run, every visiting order of the    *)
(* same rows yields a target with the same fsno set, and the same row for  *)
(* every fsno that was in the pre-run target or occurs in one decodable    *)
(* source row only; for an fsno new to the target that several decodable   *)
(* rows share, the row stored is the one visited first in that order.      *)
C17_OrderIndependentButForSharedKeys ==
    Returned /\ ret.err = "nil" =>
        \A c2 \in VisitOrders(cursor) :
            LET t2 == TargetAfter(c2)
                shared(key) ==
                    /\ \A r \in preTarget : r[PrimaryKey] # key
                    /\ Cardinality({i \in Decodable(c2) : c2[i][1] = key}) >= 2
            IN  /\ {r[PrimaryKey] : r \in t2} = {r[PrimaryKey] : r \in target}
                /\ \A r \in t2 :
                       IF shared(r[PrimaryKey])
                       THEN {r} = Load({}, <<c2[FirstWith(c2, r[PrimaryKey])]>>, 1)
                       ELSE r \in target

(* A committed run over rows that share a new fsno, next to another row. *)
C17_Witness ==
    /\ Returned
    /\ ret.err = "nil"
    /\ Len(cursor) = 3
    /\ log.exec = 3
    /\ log.inserted = 2
    /\ \E i, j \in 1..3 : i # j /\ cursor[i][1] = cursor[j][1]
                          /\ cursor[i] # cursor[j]

(* The deferred calls in the order runETL acquires what they release. *)
AcquireOrder == DeferRowsClose \o DeferRollback \o DeferStmtClose

(* Where runETL stands, read from what it holds. *)
StepOrder ==
    /\ InRun => tableExists /\ exit = "none"
    /\ pc = "query"   => deferred = <<>> /\ ~rowsOpen /\ tx = "none" /\ stmt = "none"
    /\ pc = "begin"   => deferred = SubSeq(AcquireOrder, 1, 1) /\ rowsOpen
                         /\ tx = "none" /\ stmt = "none"
    /\ pc = "prepare" => deferred = SubSeq(AcquireOrder, 1, 2) /\ rowsOpen
                         /\ tx = "active" /\ stmt = "none"
    /\ pc \in {"loop", "commit"} =>
            /\ deferred = AcquireOrder
            /\ tx = "active" /\ stmt = "open" /\ log.commit = 0
            /\ txRows = Load(preTarget, SubSeq(cursor, 1, pos), 1)
    /\ pc = "commit"  => pos = Len(cursor) /\ ~rowsOpen
    /\ pc \in {"query", "begin", "prepare"} => pos = 0 /\ log.exec = 0
    /\ \A i, j \in 1..Len(cursor) :
            i < j => FsnoRank(cursor[i][1]) <= FsnoRank(cursor[j][1])
    /\ log.exec + log.scanFail = pos
    /\ log.commit <= 1

(* C18: the steps of a pipeline run occur in a fixed order.  runETL starts *)
(* only from a successful ensureTargetTable; the cursor is opened, then    *)
(* the transaction begun, then the statement prepared, once; rows are      *)
(* executed one at a time, in cursor order, ascending by fsno, on that     *)
(* statement; Commit comes last and at most once.                          *)
C18_StepOrder ==
    /\ []StepOrder
    /\ [][/\ pc' = "query" /\ pc # "query" => pc = "ensure" /\ tableExists'
          /\ pc = "ensure" /\ ~tableExists' => pc' = "idle" /\ exit' = "fatal"
          /\ rowsOpen' /\ ~rowsOpen => pc = "query" /\ tx = "none"
          /\ tx' = "active" /\ tx # "active" =>
                 pc = "begin" /\ rowsOpen /\ stmt = "none"
          /\ stmt' = "open" /\ stmt # "open" =>
                 pc = "prepare" /\ tx = "active" /\ stmt = "none" /\ log.exec = 0
          /\ log'.exec > log.exec =>
                 /\ pc = "loop" /\ stmt = "open" /\ stmt' = "open" /\ tx = "active"
                 /\ log'.exec = log.exec + 1 /\ pos' = pos + 1
                 /\ log.commit = 0 /\ cursor' = cursor
          /\ log'.commit > log.commit =>
                 /\ pc = "commit" /\ log.commit = 0 /\ pos = Len(cursor)
                 /\ pc' = "return" /\ log'.exec = log.exec /\ pos' = pos]_vars

(* A run has executed three rows of three different keys and committed. *)
C18_Witness ==
    /\ Returned
    /\ ret.err = "nil"
    /\ log.exec = 3
    /\ log.commit = 1
    /\ Cardinality({cursor[i][1] : i \in 1..Len(cursor)}) = 3

(* The target row r is the result row tuple as the SalesDB columns keep   *)
(* it: NULL where the tuple is NULL, else the value as stored.             *)
ImageOf(r, tuple) ==
    \A i \in 1..NCols :
        LET col == ColumnOf[SelectCols[i]]
        IN  IF tuple[i] = Null THEN r[col] = Null
            ELSE r[col] # Null /\ StoredAs(tuple[i], r[col])

(* The fsno values of the decodable rows of c that the table lacks. *)
NewKeys(c, table) ==
    {c[i][1] : i \in Decodable(c)} \ {r[PrimaryKey] : r \in table}

(* C19: after a committed run the target is the pre-run target plus, for   *)
(* each fsno absent from the pre-run target that occurs in a decodable     *)
(* source row, exactly one row: the first decodable row with that fsno in  *)
(* cursor order.  Nothing else is added; undecodable rows add nothing.     *)
C19_FinalContents ==
    Returned /\ ret.err = "nil" =>
        LET new == NewKeys(cursor, preTarget)
        IN  /\ preTarget \subseteq target
            /\ \A r \in target \ preTarget :
                   /\ r[PrimaryKey] \in new
                   /\ ImageOf(r, cursor[FirstWith(cursor, r[PrimaryKey])])
            /\ \A key \in new :
                   Cardinality({r \in target : r[PrimaryKey] = key}) = 1
            /\ Cardinality(target) = Cardinality(preTarget) + Cardinality(new)

(* A committed run over a target with rows, a source row that fails to     *)
(* decode, and two decodable rows sharing an fsno new to the target.       *)
C19_Witness ==
    /\ Returned
    /\ ret.err = "nil"
    /\ log.scanFail >= 1
    /\ preTarget # {}
    /\ \E i, j \in Decodable(cursor) :
          /\ i < j
          /\ cursor[i][1] = cursor[j][1]
          /\ cursor[i] # cursor[j]
          /\ cursor[i][1] \in NewKeys(cursor, preTarget)

====
